---- MODULE Spec2Model ----
(***************************************************************************)
(* A model of the json crate of half-stack: the recursive-descent Parser   *)
(* (parser.rs), the Number literal parser (number.rs), the Value tree and  *)
(* its Display serializer (value.rs) and the Error taxonomy (error.rs).    *)
(*                                                                         *)
(* Text is a sequence of characters; a character is a one-character        *)
(* string, except the control characters that TLA+ cannot write, which    *)
(* are the named characters BS (U+0008) and VT (U+000B).  Offsets are      *)
(* 0-based as in the source: char(inp, p) is inp[p + 1].                   *)
(***************************************************************************)
EXTENDS Integers, Sequences, FiniteSets

BS == "BS"
VT == "VT"

\* ------------------------------------------------------------ results

Ok(v) == [tag |-> "Ok", val |-> v]
Err(e) == [tag |-> "Err", err |-> e]
\* An abort of the thread: todo!(), an index or slice out of bounds, an
\* arithmetic overflow.
Panic == [tag |-> "Panic"]
\* Ok(()) of require_chars
Unit == [tag |-> "Unit"]

UnexpectedChar(p) == [kind |-> "UnexpectedChar", at |-> p]
UnexpectedEnd(p) == [kind |-> "UnexpectedEnd", at |-> p]
InvalidEscape(c) == [kind |-> "InvalidEscape", ch |-> c]
\* ParseNumberError::ParseIntError(e) / ParseFloatError(e), e the std error kind
ParseIntError(k) == [sub |-> "ParseIntError", why |-> k]
ParseFloatError(k) == [sub |-> "ParseFloatError", why |-> k]
InvalidNumber(e) == [kind |-> "InvalidNumber", num |-> e]

\* ------------------------------------------------------------ values

Null == [tag |-> "Null"]
Bool(b) == [tag |-> "Bool", b |-> b]
String(s) == [tag |-> "String", s |-> s]
Array(a) == [tag |-> "Array", a |-> a]
\* o is a function from keys (texts) to Values: the BTreeMap
Object(o) == [tag |-> "Object", o |-> o]
NumberValue(n) == [tag |-> "Number", n |-> n]

\* A u64 is its decimal digits without leading zeros; an i64 is a sign and
\* the digits of its magnitude (the sign of zero is positive); an f64 is a
\* sign, the digits of the integer part and the digits of the fraction.
UInt(d) == [tag |-> "UInt", digits |-> d]
\* Number::Int (Int itself names the integers)
NumInt(neg, d) == [tag |-> "Int", neg |-> neg, digits |-> d]
Float(neg, d, f) == [tag |-> "Float", neg |-> neg, digits |-> d, frac |-> f]

\* ------------------------------------------------------------ text

Digits == <<"0", "1", "2", "3", "4", "5", "6", "7", "8", "9">>
DigitSet == {Digits[i] : i \in 1..Len(Digits)}
DigitVal(c) == (CHOOSE i \in 1..Len(Digits) : Digits[i] = c) - 1

\* &s[a..b]: the characters at offsets a .. b-1
Slice(s, a, b) == [i \in 1..(b - a) |-> s[a + i]]

U64Max == <<"1","8","4","4","6","7","4","4","0","7","3","7","0","9","5","5","1","6","1","5">>
I64Max == <<"9","2","2","3","3","7","2","0","3","6","8","5","4","7","7","5","8","0","7">>
I64MinMag == <<"9","2","2","3","3","7","2","0","3","6","8","5","4","7","7","5","8","0","8">>

RECURSIVE StripZeros(_)
StripZeros(d) ==
    IF Len(d) > 1 /\ d[1] = "0" THEN StripZeros(Tail(d)) ELSE d

RECURSIVE StripTrailingZeros(_)
StripTrailingZeros(d) ==
    IF Len(d) > 0 /\ d[Len(d)] = "0"
    THEN StripTrailingZeros(SubSeq(d, 1, Len(d) - 1))
    ELSE d

RECURSIVE DigitsLess(_, _)
\* a < b for two digit sequences of the same length
DigitsLess(a, b) ==
    IF a = <<>> THEN FALSE
    ELSE IF a[1] # b[1] THEN DigitVal(a[1]) < DigitVal(b[1])
    ELSE DigitsLess(Tail(a), Tail(b))

\* a > b for two numbers written without leading zeros
Exceeds(a, b) ==
    \/ Len(a) > Len(b)
    \/ Len(a) = Len(b) /\ DigitsLess(b, a)

AllDigits(s) == \A i \in 1..Len(s) : s[i] \in DigitSet

\* str::parse::<u64>
ParseU64(s) ==
    IF s = <<>> THEN Err(InvalidNumber(ParseIntError("Empty")))
    ELSE IF s = <<"+">> \/ s = <<"-">>
    THEN Err(InvalidNumber(ParseIntError("InvalidDigit")))
    ELSE LET body == IF s[1] = "+" THEN Tail(s) ELSE s
         IN IF ~AllDigits(body)
            THEN Err(InvalidNumber(ParseIntError("InvalidDigit")))
            ELSE IF Exceeds(StripZeros(body), U64Max)
            THEN Err(InvalidNumber(ParseIntError("PosOverflow")))
            ELSE Ok(UInt(StripZeros(body)))

\* str::parse::<i64>
ParseI64(s) ==
    IF s = <<>> THEN Err(InvalidNumber(ParseIntError("Empty")))
    ELSE IF s = <<"+">> \/ s = <<"-">>
    THEN Err(InvalidNumber(ParseIntError("InvalidDigit")))
    ELSE LET neg == s[1] = "-"
             body == IF s[1] \in {"+", "-"} THEN Tail(s) ELSE s
             mag == StripZeros(body)
         IN IF ~AllDigits(body)
            THEN Err(InvalidNumber(ParseIntError("InvalidDigit")))
            ELSE IF neg /\ Exceeds(mag, I64MinMag)
            THEN Err(InvalidNumber(ParseIntError("NegOverflow")))
            ELSE IF ~neg /\ Exceeds(mag, I64Max)
            THEN Err(InvalidNumber(ParseIntError("PosOverflow")))
            ELSE Ok(NumInt(neg /\ mag # <<"0">>, mag))

\* str::parse::<f64> on a literal without exponent: an optional sign, then
\* digits with at most one decimal point and at least one digit.  (The
\* exponent, inf and nan forms cannot be captured by parse_number, whose run
\* holds only digits, '-' and '.' and at most one further character.)
ParseF64(s) ==
    IF s = <<>> THEN Err(InvalidNumber(ParseFloatError("Empty")))
    ELSE LET neg == s[1] = "-"
             body == IF s[1] \in {"+", "-"} THEN Tail(s) ELSE s
             dots == {i \in 1..Len(body) : body[i] = "."}
             dot == IF dots = {} THEN Len(body) + 1 ELSE CHOOSE i \in dots : TRUE
             ip == SubSeq(body, 1, dot - 1)
             fp == SubSeq(body, dot + 1, Len(body))
         IN IF \/ Cardinality(dots) > 1
               \/ ~AllDigits(ip) \/ ~AllDigits(fp)
               \/ Len(ip) + Len(fp) = 0
            THEN Err(InvalidNumber(ParseFloatError("Invalid")))
            ELSE Ok(Float(neg,
                          IF ip = <<>> THEN <<"0">> ELSE StripZeros(ip),
                          StripTrailingZeros(fp)))

Contains(s, c) == \E i \in 1..Len(s) : s[i] = c

\* NumberFromStr with the sign tested before the decimal point
NumberFromStr_SignFirst(s) ==
    IF Len(s) > 0 /\ s[1] = "-" THEN ParseI64(s)
    ELSE IF Contains(s, ".") THEN ParseF64(s)
    ELSE ParseU64(s)

\* impl FromStr for Number
NumberFromStr(s) ==
    IF Contains(s, ".") THEN ParseF64(s)
    ELSE IF Len(s) > 0 /\ s[1] = "-" THEN ParseI64(s)
    ELSE ParseU64(s)

\* ------------------------------------------------------------ display

\* the single-byte characters of the model in ascending byte order
Bytes ==
    <<BS, "\t", "\n", VT, "\f", "\r", " ", "\"", "+", ",", "-", ".", "/",
      "0", "1", "2", "3", "4", "5", "6", "7", "8", "9", ":",
      "[", "\\", "]",
      "a", "b", "c", "d", "e", "f", "g", "h", "i", "j", "k", "l", "m",
      "n", "o", "p", "q", "r", "s", "t", "u", "v", "w", "x", "y", "z",
      "{", "}">>
Code(c) == CHOOSE i \in 1..Len(Bytes) : Bytes[i] = c

RECURSIVE TextLess(_, _)
\* Ord for String: a < b in byte-lexicographic order
TextLess(a, b) ==
    IF b = <<>> THEN FALSE
    ELSE IF a = <<>> THEN TRUE
    ELSE IF a[1] # b[1] THEN Code(a[1]) < Code(b[1])
    ELSE TextLess(Tail(a), Tail(b))

RECURSIVE SortedKeys_Descending(_)
\* the keys in descending order
SortedKeys_Descending(ks) ==
    IF ks = {} THEN <<>>
    ELSE LET most == CHOOSE k \in ks : \A j \in ks \ {k} : TextLess(j, k)
         IN <<most>> \o SortedKeys_Descending(ks \ {most})

RECURSIVE SortedKeys(_)
\* BTreeMap::iter: the keys in ascending order
SortedKeys(ks) ==
    IF ks = {} THEN <<>>
    ELSE LET least == CHOOSE k \in ks : \A j \in ks \ {k} : TextLess(k, j)
         IN <<least>> \o SortedKeys(ks \ {least})

RECURSIVE replace(_, _, _)
\* str::replace of one character by a text
replace(s, from, to) ==
    IF s = <<>> THEN <<>>
    ELSE (IF s[1] = from THEN to ELSE <<s[1]>>) \o replace(Tail(s), from, to)

\* fn escape in Display for Value
escape(s) ==
    replace(replace(replace(replace(replace(replace(replace(replace(s,
        "\\", <<"\\", "\\">>),
        "\"", <<"\\", "\"">>),
        "/", <<"\\", "/">>),
        BS, <<"\\", "b">>),
        "\f", <<"\\", "f">>),
        "\n", <<"\\", "n">>),
        "\r", <<"\\", "r">>),
        "\t", <<"\\", "t">>)

RECURSIVE join(_, _)
\* [String]::join
join(texts, sep) ==
    IF texts = <<>> THEN <<>>
    ELSE IF Len(texts) = 1 THEN texts[1]
    ELSE texts[1] \o sep \o join(Tail(texts), sep)

\* Display for Number
number_to_string(n) ==
    CASE n.tag = "UInt" -> n.digits
      [] n.tag = "Int" -> (IF n.neg THEN <<"-">> ELSE <<>>) \o n.digits
      [] n.tag = "Float" ->
            (IF n.neg THEN <<"-">> ELSE <<>>) \o n.digits
            \o (IF n.frac = <<>> THEN <<>> ELSE <<".">> \o n.frac)

RECURSIVE to_string(_)
\* Display for Value
to_string(v) ==
    CASE v.tag = "Null" -> <<"n", "u", "l", "l">>
      [] v.tag = "Bool" ->
            IF v.b THEN <<"t", "r", "u", "e">> ELSE <<"f", "a", "l", "s", "e">>
      [] v.tag = "Number" -> number_to_string(v.n)
      [] v.tag = "String" -> <<"\"">> \o escape(v.s) \o <<"\"">>
      [] v.tag = "Array" ->
            <<"[">> \o join([i \in 1..Len(v.a) |-> to_string(v.a[i])], <<",">>)
            \o <<"]">>
      [] v.tag = "Object" ->
            LET ks == SortedKeys(DOMAIN v.o)
            IN <<"{">>
               \o join([i \in 1..Len(ks) |->
                          <<"\"">> \o escape(ks[i]) \o <<"\"", ":">>
                          \o to_string(v.o[ks[i]])],
                       <<",">>)
               \o <<"}">>

\* ------------------------------------------------------------ parser

\* Parser::char: the character at offset p (p < Len(inp) is the caller's to
\* check: an offset outside the input aborts)
char(inp, p) == inp[p + 1]
InBounds(inp, p) == p >= 0 /\ p < Len(inp)

\* char::is_whitespace over the single-byte characters
WhiteSpace == {" ", "\t", "\n", VT, "\f", "\r"}

\* skip without the comma
skip_NoComma(x) == x \in WhiteSpace

\* fn skip in skip_whitespace
skip(x) == x \in WhiteSpace \/ x = ","

RECURSIVE SkipLoop(_, _)
\* while self.pos < self.len && skip(self.next()) {}: the cursor the loop
\* leaves (next() has moved past the character that ended it)
SkipLoop(inp, p) ==
    IF p < Len(inp)
    THEN IF skip(char(inp, p)) THEN SkipLoop(inp, p + 1) ELSE p + 1
    ELSE p

\* skip_whitespace without the unread of the character that ended the loop
skip_whitespace_NoUnread(inp, p) == SkipLoop(inp, p)

\* Parser::skip_whitespace from cursor p: the new cursor, or -1 when
\* self.pos -= 1 underflows
skip_whitespace(inp, p) == SkipLoop(inp, p) - 1

RECURSIVE require_chars(_, _, _)
\* Parser::require_chars: [res, pos]
require_chars(inp, p, chars) ==
    IF chars = <<>> THEN [res |-> Ok(Unit), pos |-> p]
    ELSE IF p >= Len(inp) THEN [res |-> Err(UnexpectedEnd(p)), pos |-> p]
    ELSE IF char(inp, p) # Head(chars)
    THEN [res |-> Err(UnexpectedChar(p + 1)), pos |-> p + 1]
    ELSE require_chars(inp, p + 1, Tail(chars))

\* Parser::parse_null
parse_null(inp, p) ==
    LET r == require_chars(inp, p, <<"n", "u", "l", "l">>)
    IN IF r.res.tag = "Err" THEN r ELSE [res |-> Ok(Null), pos |-> r.pos]

\* parse_bool matching the suffix from the first character, not after it
parse_bool_Unconsumed(inp, p) ==
    IF ~InBounds(inp, p) THEN [res |-> Panic, pos |-> p + 1]
    ELSE LET expected == char(inp, p)
             r == IF expected = "t"
                  THEN require_chars(inp, p, <<"r", "u", "e">>)
                  ELSE IF expected = "f"
                  THEN require_chars(inp, p, <<"a", "l", "s", "e">>)
                  ELSE [res |-> Err(UnexpectedChar(p + 1)), pos |-> p + 1]
         IN IF r.res.tag = "Err" THEN r
            ELSE [res |-> Ok(Bool(expected = "t")), pos |-> r.pos]

\* Parser::parse_bool
parse_bool(inp, p) ==
    IF ~InBounds(inp, p) THEN [res |-> Panic, pos |-> p + 1]
    ELSE LET expected == char(inp, p)
             r == IF expected = "t"
                  THEN require_chars(inp, p + 1, <<"r", "u", "e">>)
                  ELSE IF expected = "f"
                  THEN require_chars(inp, p + 1, <<"a", "l", "s", "e">>)
                  ELSE [res |-> Err(UnexpectedChar(p + 1)), pos |-> p + 1]
         IN IF r.res.tag = "Err" THEN r
            ELSE [res |-> Ok(Bool(expected = "t")), pos |-> r.pos]

\* fn is_digit in parse_number
is_digit(digit) == digit \in DigitSet \/ digit \in {"-", "."}

RECURSIVE NumberLoop(_, _)
\* while self.pos < self.len && is_digit(self.next()) {}
NumberLoop(inp, p) ==
    IF p < Len(inp)
    THEN IF is_digit(char(inp, p)) THEN NumberLoop(inp, p + 1) ELSE p + 1
    ELSE p

\* Parser::parse_number
parse_number(inp, p) ==
    LET start == p
        end == NumberLoop(inp, p)
        num == Slice(inp, start, end)
        n == NumberFromStr(num)
    IN [res |-> IF n.tag = "Err" THEN n ELSE Ok(NumberValue(n.val)),
        pos |-> end]

RECURSIVE UnescapeFrom(_, _, _, _)
\* the loop of fn unescape from the i-th character on
UnescapeFrom(s, i, esc, out) ==
    IF i > Len(s) THEN Ok(out)
    ELSE IF esc
    THEN CASE s[i] = "\"" -> UnescapeFrom(s, i + 1, FALSE, Append(out, "\""))
           [] s[i] = "\\" -> UnescapeFrom(s, i + 1, FALSE, Append(out, "\\"))
           [] s[i] = "/" -> UnescapeFrom(s, i + 1, FALSE, Append(out, "/"))
           [] s[i] = "b" -> UnescapeFrom(s, i + 1, FALSE, Append(out, BS))
           [] s[i] = "f" -> UnescapeFrom(s, i + 1, FALSE, Append(out, "\f"))
           [] s[i] = "n" -> UnescapeFrom(s, i + 1, FALSE, Append(out, "\n"))
           [] s[i] = "r" -> UnescapeFrom(s, i + 1, FALSE, Append(out, "\r"))
           [] s[i] = "t" -> UnescapeFrom(s, i + 1, FALSE, Append(out, "\t"))
           [] OTHER -> Err(InvalidEscape(s[i]))
    ELSE IF s[i] = "\\" THEN UnescapeFrom(s, i + 1, TRUE, out)
    ELSE UnescapeFrom(s, i + 1, FALSE, Append(out, s[i]))

\* fn unescape in parse_string
unescape(s) == UnescapeFrom(s, 1, FALSE, <<>>)

RECURSIVE StringLoop(_, _, _)
\* while self.pos < self.len && (self.char(self.pos) != '"' || escape)
StringLoop(inp, p, esc) ==
    IF p < Len(inp) /\ (char(inp, p) # "\"" \/ esc)
    THEN IF char(inp, p) = "\\"
         THEN StringLoop(inp, p + 1, TRUE)
         ELSE StringLoop(inp, p + 1, FALSE)
    ELSE p

\* Parser::parse_string
parse_string(inp, p) ==
    LET start == p + 1
        end == StringLoop(inp, start, FALSE)
    IN IF end = Len(inp) /\ char(inp, end - 1) # "\""
       THEN [res |-> Err(UnexpectedEnd(end)), pos |-> end]
       ELSE IF end > Len(inp)
       THEN [res |-> Panic, pos |-> end]
       ELSE LET s == unescape(Slice(inp, start, end))
            IN [res |-> IF s.tag = "Err" THEN s ELSE Ok(String(s.val)),
                pos |-> end + 1]

RECURSIVE ScanLoop_SkipStrings(_, _, _, _, _)
\* a pre-scan that steps over the string literals
ScanLoop_SkipStrings(inp, p, depth, open, close) ==
    IF p < Len(inp) /\ depth # 0
    THEN IF char(inp, p) = "\""
         THEN LET quotes == {q \in (p + 1)..(Len(inp) - 1) : char(inp, q) = "\""}
                  closing == CHOOSE q \in quotes : \A r \in quotes : q <= r
              IN ScanLoop_SkipStrings(inp,
                     IF quotes = {} THEN Len(inp) ELSE closing + 1,
                     depth, open, close)
         ELSE ScanLoop_SkipStrings(inp, p + 1,
                  IF char(inp, p) = open THEN depth + 1
                  ELSE IF char(inp, p) = close THEN depth - 1
                  ELSE depth,
                  open, close)
    ELSE [pos |-> p, depth |-> depth]

RECURSIVE ScanLoop(_, _, _, _, _)
\* the pre-scan of parse_array and parse_object:
\* while self.pos < self.len && depth != 0 { match self.next() {..} }
ScanLoop(inp, p, depth, open, close) ==
    IF p < Len(inp) /\ depth # 0
    THEN ScanLoop(inp, p + 1,
                  IF char(inp, p) = open THEN depth + 1
                  ELSE IF char(inp, p) = close THEN depth - 1
                  ELSE depth,
                  open, close)
    ELSE [pos |-> p, depth |-> depth]

\* usize::saturating_sub
saturating_sub(a, b) == IF a >= b THEN a - b ELSE 0

\* ------------------------------------------------------------ inputs

\* the longest text over GenChars
MaxLen == 3
\* the longest string-literal body over StrChars
MaxStr == 4
\* the longest number text over NumChars
MaxNum == 4
\* the most values (atoms and arrays) inside a generated array text
MaxNodes == 3
\* the most elements of a generated Array or members of a generated Object
MaxElems == 2

Texts(chars, n) == UNION {[1..k -> chars] : k \in 0..n}

GenChars == {"n", "t", "f", "\"", "[", "]", "{", "}", ":", ",", " ", "1", "x"}
GenTexts == Texts(GenChars, MaxLen)

StrChars == {"\"", "\\", "n", "x"}
StrTexts == {<<"\"">> \o s : s \in Texts(StrChars, MaxStr)}

NumChars == {"0", "1", "-", ".", "d"}
NumTexts ==
    Texts(NumChars, MaxNum)
    \cup {U64Max, I64Max, <<"-">> \o I64MinMag,
          SubSeq(U64Max, 1, 19) \o <<"6">>,
          <<"-">> \o SubSeq(I64MinMag, 1, 18) \o <<"9">>,
          <<"1", "2", "3">>, <<"-", "1", "2", "3">>,
          <<"1", "2", "3", ".", "4", "5", "6">>, <<"1", "2", "3", "d">>,
          <<"1", "2", "3", ".", "4", "5", "6", ".", "7", "8", "9">>}

null == <<"n", "u", "l", "l">>
true == <<"t", "r", "u", "e">>
false == <<"f", "a", "l", "s", "e">>
Literals == {null, true, false}
LitChars == {"n", "u", "l", "t", "r", "e", "f", "a", "s", "x", " "}

\* the prefixes of the literals, each with one character replaced, and the
\* literals with one character appended
LitTexts ==
    UNION {{SubSeq(l, 1, k) : k \in 0..Len(l)} : l \in Literals}
    \cup UNION {UNION {{[SubSeq(l, 1, k) EXCEPT ![i] = c] :
                          i \in 1..k, c \in LitChars} : k \in 1..Len(l)} :
                  l \in Literals}
    \cup {l \o <<c>> : l \in Literals, c \in LitChars}

\* ----- array texts: [text, val] pairs of an array text and the Array it denotes

Runs == {<<>>, <<",">>, <<" ">>, <<",", " ">>}
Atoms ==
    {[text |-> null, val |-> Null],
     [text |-> true, val |-> Bool(TRUE)],
     [text |-> false, val |-> Bool(FALSE)],
     [text |-> <<"\"", "a", ",", " ", "\"">>, val |-> String(<<"a", ",", " ">>)]}

EmptyArray == [text |-> <<"[", "]">>, val |-> Array(<<>>)]
\* the array text around the element list l
Bracketed(l) == [text |-> <<"[">> \o l.text \o <<"]">>, val |-> Array(l.val)]

\* ListsOf[s]: the texts w1 e1 .. wn en made of exactly s values, an element
\* of k values being an atom or [] (k = 1) or the array around a list of
\* k - 1 values
ListsOf[s \in 0..MaxNodes] ==
    IF s = 0 THEN {[text |-> <<>>, val |-> <<>>]}
    ELSE UNION {{[text |-> w \o e.text \o l.text, val |-> <<e.val>> \o l.val] :
                    w \in Runs,
                    e \in IF k = 1 THEN Atoms \cup {EmptyArray}
                          ELSE {Bracketed(m) : m \in ListsOf[k - 1]},
                    l \in ListsOf[s - k]} :
                 k \in 1..s}

\* the array texts made of exactly k values, the array included
ArraysOf(k) ==
    IF k = 1 THEN {EmptyArray} ELSE {Bracketed(l) : l \in ListsOf[k - 1]}
ArrayPairs == UNION {ArraysOf(k) : k \in 1..MaxNodes}
ArrayTexts == {p.text : p \in ArrayPairs}
\* no two pairs share a text: a text denotes one Array
ArrayTextsDistinct == Cardinality(ArrayTexts) = Cardinality(ArrayPairs)

\* ----- object texts: [text, members] pairs of an object text and its
\* members [key, val] in text order

Quoted(s) == <<"\"">> \o s \o <<"\"">>
MemberKeys == {<<"a">>, <<"b">>}
MemberValues ==
    {[text |-> null, val |-> Null],
     [text |-> true, val |-> Bool(TRUE)],
     [text |-> Quoted(<<"x">>), val |-> String(<<"x">>)]}
Separators == {<<",">>, <<",", " ">>}

\* MemberLists[n]: the texts "k1":v1 w "k2":v2 .. of exactly n members
MemberLists[n \in 0..MaxElems] ==
    IF n = 0 THEN {[text |-> <<>>, members |-> <<>>]}
    ELSE {[text |-> l.text \o (IF n = 1 THEN <<>> ELSE w)
                       \o Quoted(k) \o <<":">> \o v.text,
           members |-> Append(l.members, [key |-> k, val |-> v.val])] :
             l \in MemberLists[n - 1], w \in Separators,
             k \in MemberKeys, v \in MemberValues}

ObjectPairs ==
    {[text |-> <<"{">> \o l.text \o <<"}">>, members |-> l.members] :
        l \in UNION {MemberLists[n] : n \in 0..MaxElems}}
ObjectTexts == {p.text : p \in ObjectPairs}
\* the members an object text was made of
MembersOf(text) == (CHOOSE p \in ObjectPairs : p.text = text).members

\* ----- array texts with brackets inside string elements: [text, elems,
\* starts] of the text, its element values and the offsets they start at

BracketAtoms ==
    {[text |-> null, val |-> Null],
     [text |-> Quoted(<<"[">>), val |-> String(<<"[">>)],
     [text |-> Quoted(<<"]">>), val |-> String(<<"]">>)]}

\* BracketLists[n]: the texts [e1,e2.. of exactly n elements, unclosed
BracketLists[n \in 0..MaxElems] ==
    IF n = 0 THEN {[text |-> <<"[">>, elems |-> <<>>, starts |-> <<>>]}
    ELSE {LET head == l.text \o (IF n = 1 THEN <<>> ELSE <<",">>)
          IN [text |-> head \o e.text,
              elems |-> Append(l.elems, e.val),
              starts |-> Append(l.starts, Len(head))] :
             l \in BracketLists[n - 1], e \in BracketAtoms}

BracketPairs ==
    {[l EXCEPT !.text = @ \o <<"]">>] :
        l \in UNION {BracketLists[n] : n \in 0..MaxElems}}
BracketTexts == {p.text : p \in BracketPairs}
\* object texts with braces inside their strings
BraceTexts ==
    {<<"{">> \o Quoted(k) \o <<":">> \o v \o <<"}">> :
        k \in {<<"a">>, <<"{">>, <<"}">>},
        v \in {null, Quoted(<<"{">>), Quoted(<<"}">>)}}

\* object texts whose first key position holds a character other than '"':
\* the opening quote of the key is replaced or missing
BadKeyTexts ==
    {<<"{">> \o w \o k \o <<"\"", ":">> \o v \o <<"}">> :
        w \in {<<>>, <<" ">>},
        k \in {<<"x">>, <<"x", "a">>, <<"1">>, <<":">>, <<"n">>, <<"a">>},
        v \in {null, Quoted(<<"x">>)}}

\* ----- values to render

ValueAtoms ==
    {Null, Bool(TRUE), Bool(FALSE),
     NumberValue(UInt(<<"0">>)), NumberValue(UInt(<<"1", "7">>)),
     NumberValue(NumInt(TRUE, <<"5">>)),
     String(<<>>), String(<<"a">>), String(<<"\\">>), String(<<"\"">>),
     String(<<"\n">>)}
ValueKeys == {<<"a">>, <<"b">>, <<>>}

Arrays(elems) == {Array(a) : a \in Texts(elems, MaxElems)}
Objects(elems) ==
    {Object(o) : o \in UNION {[ks -> elems] :
                     ks \in {k \in SUBSET ValueKeys : Cardinality(k) <= MaxElems}}}

Values ==
    ValueAtoms \cup Arrays(ValueAtoms) \cup Objects(ValueAtoms)
    \cup Arrays({Null, Array(<<>>), Array(<<Null>>), Object(<<>>)})
    \cup Objects({Null, Array(<<>>), Array(<<Null>>), Object(<<>>)})
\* [text, val]: a value and the text it renders to
Rendered == {[text |-> to_string(v), val |-> v] : v \in Values}
RenderedTexts == {p.text : p \in Rendered}

Inputs ==
    GenTexts \cup StrTexts \cup NumTexts \cup LitTexts \cup ArrayTexts
    \cup RenderedTexts \cup ObjectTexts \cup BracketTexts \cup BraceTexts
    \cup BadKeyTexts

\* ------------------------------------------------------------ state

VARIABLES
    input,   \* Parser.input: the text handed to Value::from_str
    pos,     \* Parser.pos: the cursor
    pc,      \* the function (or the place in parse_array / parse_object) about to run
    after,   \* where control continues when skip_whitespace returns
    stack,   \* the active parse_array / parse_object calls, innermost last
    ret,     \* the value the last function returned
    call,    \* the function running or just returned, and the cursor at its entry
    depth,   \* the local depth at the end of the latest pre-scan
    opened,  \* history: the offsets of the opening delimiters consumed so far
    cmp,     \* the two Numbers a caller compares and hashes, and what it got
    logger,  \* the Logger: its fields level and color
    out,     \* the lines the Logger printed to standard output
    calls    \* history: the Logger methods called since Logger::new

\* the state outside the parser: the Number pair and the Logger
harness == <<cmp, logger, out, calls>>

vars == <<input, pos, pc, after, stack, ret, call, depth, opened, cmp, logger, out, calls>>

len == Len(input)

NoValue == [tag |-> "None"]

\* the frame of a parse_array / parse_object call: its locals, and as
\* history the cursor at the loop test of its current iteration (mark)
Frame(fn, start, end, tokens) ==
    [fn |-> fn, start |-> start, end |-> end, tokens |-> tokens, key |-> <<>>,
     mark |-> start]

Top == stack[Len(stack)]
Pop == SubSeq(stack, 1, Len(stack) - 1)
SetTop(f) == [stack EXCEPT ![Len(stack)] = f]

\* the thread aborts: the unwinding drops every call
Abort ==
    /\ pc' = "done"
    /\ ret' = Panic
    /\ stack' = <<>>
    /\ UNCHANGED <<harness, opened, input, pos, after, call, depth>>

\* a leaf function started at the cursor returns r = [res, pos]
Leaf(fn, r) ==
    IF r.res = Panic THEN Abort
    ELSE /\ pos' = r.pos
         /\ ret' = r.res
         /\ call' = [fn |-> fn, at |-> pos]
         /\ pc' = "return"
         /\ UNCHANGED <<harness, opened, input, after, stack, depth>>

\* Parser::parse, lines 43-47: the empty-input check, then skip_whitespace
Parse ==
    /\ pc = "parse"
    /\ IF len = 0
       THEN /\ ret' = Err(UnexpectedEnd(pos))
            /\ call' = [fn |-> "parse", at |-> pos]
            /\ pc' = "return"
            /\ UNCHANGED <<harness, opened, input, pos, after, stack, depth>>
       ELSE /\ pc' = "skip_whitespace"
            /\ after' = "dispatch"
            /\ UNCHANGED <<harness, opened, input, pos, stack, ret, call, depth>>

\* Parser::skip_whitespace
SkipWhitespace ==
    /\ pc = "skip_whitespace"
    /\ IF skip_whitespace(input, pos) < 0 THEN Abort
       ELSE /\ pos' = skip_whitespace(input, pos)
            /\ pc' = after
            /\ UNCHANGED <<harness, opened, input, after, stack, ret, call, depth>>

\* Parser::parse, lines 48-57: the match on the character at the cursor
Dispatch ==
    /\ pc = "dispatch"
    /\ IF ~InBounds(input, pos) THEN Abort
       ELSE LET chr == char(input, pos)
            IN IF chr \notin ({"n", "t", "f", "-", "\"", "[", "{"} \cup DigitSet)
               THEN Abort   \* todo!("Error {x}")
               ELSE /\ pc' = CASE chr = "n" -> "parse_null"
                               [] chr \in {"t", "f"} -> "parse_bool"
                               [] chr \in DigitSet \cup {"-"} -> "parse_number"
                               [] chr = "\"" -> "parse_string"
                               [] chr = "[" -> "parse_array"
                               [] chr = "{" -> "parse_object"
                    /\ UNCHANGED <<harness, opened, input, pos, after, stack, ret, call, depth>>

ParseNull == pc = "parse_null" /\ Leaf("parse_null", parse_null(input, pos))

ParseBool == pc = "parse_bool" /\ Leaf("parse_bool", parse_bool(input, pos))

ParseNumber == pc = "parse_number" /\ Leaf("parse_number", parse_number(input, pos))

ParseString == pc = "parse_string" /\ Leaf("parse_string", parse_string(input, pos))

\* Enter reporting the offset after the opening delimiter, not the end of input
Enter_StartOffset(fn, open, close, empty, loop) ==
    LET start == pos + 1
        scan == ScanLoop(input, start, 1, open, close)
    IN /\ depth' = scan.depth
       /\ call' = [fn |-> fn, at |-> pos]
       /\ opened' = opened \cup {pos}
       /\ IF scan.pos = len /\ scan.depth # 0
          THEN /\ pos' = scan.pos
               /\ ret' = Err(UnexpectedEnd(start))
               /\ pc' = "return"
               /\ UNCHANGED <<harness, input, after, stack>>
          ELSE /\ pos' = start
               /\ stack' = Append(stack, Frame(fn, start, scan.pos, empty))
               /\ pc' = loop
               /\ UNCHANGED <<harness, input, after, ret>>

\* Enter resetting the cursor to the opening delimiter, not past it
Enter_ResetToDelimiter(fn, open, close, empty, loop) ==
    LET start == pos + 1
        scan == ScanLoop(input, start, 1, open, close)
    IN /\ depth' = scan.depth
       /\ call' = [fn |-> fn, at |-> pos]
       /\ opened' = opened \cup {pos}
       /\ IF scan.pos = len /\ scan.depth # 0
          THEN /\ pos' = scan.pos
               /\ ret' = Err(UnexpectedEnd(scan.pos))
               /\ pc' = "return"
               /\ UNCHANGED <<harness, input, after, stack>>
          ELSE /\ pos' = start - 1
               /\ stack' = Append(stack, Frame(fn, start, scan.pos, empty))
               /\ pc' = loop
               /\ UNCHANGED <<harness, input, after, ret>>

\* parse_array lines 153-169 and parse_object lines 182-198: consume the
\* opening delimiter, pre-scan for the matching close, reset the cursor
Enter(fn, open, close, empty, loop) ==
    LET start == pos + 1
        scan == ScanLoop(input, start, 1, open, close)
    IN /\ depth' = scan.depth
       /\ call' = [fn |-> fn, at |-> pos]
       /\ opened' = opened \cup {pos}
       /\ IF scan.pos = len /\ scan.depth # 0
          THEN /\ pos' = scan.pos
               /\ ret' = Err(UnexpectedEnd(scan.pos))
               /\ pc' = "return"
               /\ UNCHANGED <<harness, input, after, stack>>
          ELSE /\ pos' = start
               /\ stack' = Append(stack, Frame(fn, start, scan.pos, empty))
               /\ pc' = loop
               /\ UNCHANGED <<harness, input, after, ret>>

ParseArray ==
    /\ pc = "parse_array"
    /\ Enter("parse_array", "[", "]", <<>>, "array_loop")

ParseObject ==
    /\ pc = "parse_object"
    /\ Enter("parse_object", "{", "}", <<>>, "object_loop")

\* the container's loop is over: lines 177-178 and 216-217
Leave(value) ==
    /\ pos' = pos + 1
    /\ ret' = Ok(value)
    /\ call' = [fn |-> Top.fn, at |-> Top.start - 1]
    /\ stack' = Pop
    /\ pc' = "return"
    /\ UNCHANGED <<harness, opened, input, after, depth>>

\* parse_array lines 172-173: the loop test, then skip_whitespace
ArrayLoop ==
    /\ pc = "array_loop"
    /\ IF pos < saturating_sub(Top.end, 1)
       THEN /\ pc' = "skip_whitespace"
            /\ after' = "parse"
            /\ stack' = SetTop([Top EXCEPT !.mark = pos])
            /\ UNCHANGED <<harness, opened, input, pos, ret, call, depth>>
       ELSE Leave(Array(Top.tokens))

\* parse_object lines 201-202: the loop test, then skip_whitespace
ObjectLoop ==
    /\ pc = "object_loop"
    /\ IF pos < saturating_sub(Top.end, 1)
       THEN /\ pc' = "skip_whitespace"
            /\ after' = "object_key"
            /\ stack' = SetTop([Top EXCEPT !.mark = pos])
            /\ UNCHANGED <<harness, opened, input, pos, ret, call, depth>>
       ELSE Leave(Object(Top.tokens))

\* a callee of parse_object failed: the ? returns its error from parse_object
Fail(e, p) ==
    /\ pos' = p
    /\ ret' = e
    /\ call' = [fn |-> "parse_object", at |-> Top.start - 1]
    /\ stack' = Pop
    /\ pc' = "return"
    /\ UNCHANGED <<harness, opened, input, after, depth>>

\* parse_object lines 203-204: the key, then skip_whitespace
ObjectKey ==
    /\ pc = "object_key"
    /\ LET r == parse_string(input, pos)
       IN IF r.res = Panic THEN Abort
          ELSE IF r.res.tag = "Err" THEN Fail(r.res, r.pos)
          ELSE /\ pos' = r.pos
               /\ stack' = SetTop([Top EXCEPT !.key = r.res.val.s])
               /\ pc' = "skip_whitespace"
               /\ after' = "object_colon"
               /\ UNCHANGED <<harness, opened, input, ret, call, depth>>

\* parse_object lines 205-207: the ':', skip_whitespace, then parse
ObjectColon ==
    /\ pc = "object_colon"
    /\ LET r == require_chars(input, pos, <<":">>)
       IN IF r.res.tag = "Err" THEN Fail(r.res, r.pos)
          ELSE /\ pos' = r.pos
               /\ pc' = "skip_whitespace"
               /\ after' = "parse"
               /\ UNCHANGED <<harness, opened, input, stack, ret, call, depth>>

\* parse_array line 174: tokens.push(self.parse()?) with parse returning Ok
ArrayPush ==
    /\ pc = "return"
    /\ stack # <<>>
    /\ Top.fn = "parse_array"
    /\ ret.tag = "Ok"
    /\ stack' = SetTop([Top EXCEPT !.tokens = Append(@, ret.val)])
    /\ pc' = "array_loop"
    /\ UNCHANGED <<harness, opened, input, pos, after, ret, call, depth>>

\* an insert that keeps the entry the map already holds
insert_KeepFirst(tokens, name, value) ==
    [k \in DOMAIN tokens \cup {name} |->
        IF k \in DOMAIN tokens THEN tokens[k] ELSE value]

\* BTreeMap::insert
insert(tokens, name, value) ==
    [k \in DOMAIN tokens \cup {name} |-> IF k = name THEN value ELSE tokens[k]]

\* parse_object lines 207-213: the value came back Ok, insert it under the key
ObjectInsert ==
    /\ pc = "return"
    /\ stack # <<>>
    /\ Top.fn = "parse_object"
    /\ ret.tag = "Ok"
    /\ stack' = SetTop([Top EXCEPT !.tokens = insert(@, Top.key, ret.val)])
    /\ pc' = "object_loop"
    /\ UNCHANGED <<harness, opened, input, pos, after, ret, call, depth>>

\* self.parse()? in parse_array (line 174) and parse_object (line 207) with
\* parse returning Err: the container returns the same error
Propagate ==
    /\ pc = "return"
    /\ stack # <<>>
    /\ ret.tag = "Err"
    /\ call' = [fn |-> Top.fn, at |-> Top.start - 1]
    /\ stack' = Pop
    /\ UNCHANGED <<harness, opened, input, pos, pc, after, ret, depth>>

\* Value::from_str returns what the outermost parse returned
Finish ==
    /\ pc = "return"
    /\ stack = <<>>
    /\ pc' = "done"
    /\ UNCHANGED <<harness, opened, input, pos, after, stack, ret, call, depth>>

Next ==
    \/ Parse
    \/ SkipWhitespace
    \/ Dispatch
    \/ ParseNull
    \/ ParseBool
    \/ ParseNumber
    \/ ParseString
    \/ ParseArray
    \/ ParseObject
    \/ ArrayLoop
    \/ ObjectLoop
    \/ ObjectKey
    \/ ObjectColon
    \/ ArrayPush
    \/ ObjectInsert
    \/ Propagate
    \/ Finish

\* Parser::new(s) in Value::from_str
Init ==
    /\ input \in Inputs
    /\ pos = 0
    /\ pc = "parse"
    /\ after = "dispatch"
    /\ stack = <<>>
    /\ ret = NoValue
    /\ call = [fn |-> "parse", at |-> 0]
    /\ depth = 0
    /\ opened = {}
    /\ cmp = NoValue
    /\ logger = NoValue
    /\ out = <<>>
    /\ calls = <<>>

Spec == Init /\ [][Next]_vars

\* the parse is one synchronous call: a step that can be taken is taken
FairSpec == Spec /\ WF_vars(Next)

\* ------------------------------------------------------------ Number: == and hash

\* the parser's variables at rest, for the specifications without a parse
parser == <<input, pos, pc, after, stack, ret, call, depth, opened>>
ParserIdle ==
    /\ input = <<>>
    /\ pos = 0
    /\ pc = "idle"
    /\ after = "dispatch"
    /\ stack = <<>>
    /\ ret = NoValue
    /\ call = [fn |-> "none", at |-> 0]
    /\ depth = 0
    /\ opened = {}

\* an f64 NaN: its sign bit and its payload (f64::NAN and the NaNs that
\* arithmetic and from_bits produce differ in them)
NaN(neg, payload) == [tag |-> "Float", neg |-> neg, nan |-> payload]
IsNaN(x) == "nan" \in DOMAIN x
IsZero(x) == ~IsNaN(x) /\ x.digits = <<"0">> /\ x.frac = <<>>

\* f64 ==, IEEE 754: a NaN equals nothing, +0.0 equals -0.0
F64Eq(x, y) ==
    /\ ~IsNaN(x)
    /\ ~IsNaN(y)
    /\ \/ IsZero(x) /\ IsZero(y)
       \/ x = y

\* the 64 bits of a u64 or an i64
IntBits(neg, d) ==
    [of |-> "int", neg |-> neg, digits |-> d, frac |-> <<>>, nan |-> "no"]
\* f64::to_bits: the sign bit, and the exponent and mantissa bits that the
\* magnitude or the NaN payload determines
to_bits(x) ==
    IF IsNaN(x)
    THEN [of |-> "f64", neg |-> x.neg, digits |-> <<>>, frac |-> <<>>, nan |-> x.nan]
    ELSE [of |-> "f64", neg |-> x.neg, digits |-> x.digits, frac |-> x.frac,
          nan |-> "no"]

\* impl PartialEq for Number
eq(a, b) ==
    CASE a.tag = "UInt" /\ b.tag = "UInt" -> a.digits = b.digits
      [] a.tag = "Int" /\ b.tag = "Int" -> a.neg = b.neg /\ a.digits = b.digits
      [] a.tag = "Float" /\ b.tag = "Float" -> F64Eq(a, b)
      [] OTHER -> FALSE

\* impl Hash for Number: what the Hasher is fed (two Numbers hash alike, for
\* every Hasher, exactly when it is fed the same)
hash(n) ==
    CASE n.tag = "UInt" -> [write |-> "write_u64", bits |-> IntBits(FALSE, n.digits)]
      [] n.tag = "Int" -> [write |-> "write_i64", bits |-> IntBits(n.neg, n.digits)]
      [] n.tag = "Float" -> [write |-> "write_u64", bits |-> to_bits(n)]

\* the Numbers a caller holds: parsed ones and NaNs
NumberTexts ==
    {<<"0">>, <<"1">>, <<"-", "0">>, <<"-", "1">>,
     <<"0", ".", "0">>, <<"-", "0", ".", "0">>, <<"1", ".", "0">>,
     <<"1", ".", "5">>, <<"-", "1", ".", "5">>}
Numbers ==
    {NumberFromStr(t).val : t \in NumberTexts}
    \cup {NaN(FALSE, "quiet"), NaN(TRUE, "quiet"), NaN(FALSE, "signaling")}

NoHash == [write |-> "none"]

\* a == b
Compare ==
    /\ cmp # NoValue
    /\ "eq" \notin cmp.ran
    /\ cmp' = [cmp EXCEPT !.eq = eq(cmp.lhs, cmp.rhs), !.ran = @ \cup {"eq"}]
    /\ UNCHANGED <<parser, logger, out, calls>>

\* a.hash(&mut hasher)
HashLhs ==
    /\ cmp # NoValue
    /\ "hl" \notin cmp.ran
    /\ cmp' = [cmp EXCEPT !.hl = hash(cmp.lhs), !.ran = @ \cup {"hl"}]
    /\ UNCHANGED <<parser, logger, out, calls>>

\* b.hash(&mut hasher)
HashRhs ==
    /\ cmp # NoValue
    /\ "hr" \notin cmp.ran
    /\ cmp' = [cmp EXCEPT !.hr = hash(cmp.rhs), !.ran = @ \cup {"hr"}]
    /\ UNCHANGED <<parser, logger, out, calls>>

NumberNext ==
    \/ Compare
    \/ HashLhs
    \/ HashRhs

NumberInit ==
    /\ ParserIdle
    /\ cmp \in {[lhs |-> a, rhs |-> b, eq |-> FALSE, hl |-> NoHash, hr |-> NoHash,
                 ran |-> {}] : a \in Numbers, b \in Numbers}
    /\ logger = NoValue
    /\ out = <<>>
    /\ calls = <<>>

NumberSpec == NumberInit /\ [][NumberNext]_vars

\* ------------------------------------------------------------ Logger

\* enum Level
Off == 0
Error == 1
Info == 2
Debug == 3
Levels == {Off, Error, Info, Debug}

\* Level::as_str
as_str(level) ==
    CASE level = Off -> "OFF"
      [] level = Error -> "ERROR"
      [] level = Info -> "INFO"
      [] level = Debug -> "DEBUG"

\* Level::get_color: the escape sequence, ESC written out
get_color(level) ==
    CASE level = Off -> "unreachable!()"
      [] level = Info -> "ESC[0m"
      [] level = Error -> "ESC[31m"
      [] level = Debug -> "ESC[36m"

\* impl Default for Logger
Default == [level |-> Debug, color |-> TRUE]
\* Logger::new
new == Default

\* Logger::log: the lines it prints, none or one
log(self, level, msg) ==
    IF level > self.level THEN <<>>
    ELSE <<[level |-> as_str(level),
            color |-> IF self.color THEN get_color(level) ELSE "",
            msg |-> msg,
            reset |-> IF self.color THEN "ESC[0m" ELSE ""]>>

\* the most calls made on the Logger
MaxCalls == 3
Messages == {"m"}

\* Logger::level
SetLevel ==
    /\ logger # NoValue
    /\ Len(calls) < MaxCalls
    /\ \E level \in Levels : logger' = [logger EXCEPT !.level = level]
    /\ calls' = Append(calls, "level")
    /\ UNCHANGED <<parser, cmp, out>>

\* Logger::color
SetColor ==
    /\ logger # NoValue
    /\ Len(calls) < MaxCalls
    /\ \E color \in BOOLEAN : logger' = [logger EXCEPT !.color = color]
    /\ calls' = Append(calls, "color")
    /\ UNCHANGED <<parser, cmp, out>>

\* error, info and debug: log at their level
Log(fn, level) ==
    /\ Len(calls) < MaxCalls
    /\ \E msg \in Messages : out' = out \o log(logger, level, msg)
    /\ calls' = Append(calls, fn)
    /\ UNCHANGED <<parser, cmp, logger>>

\* Logger::error
LogError == logger # NoValue /\ Log("error", Error)
\* Logger::info
LogInfo == logger # NoValue /\ Log("info", Info)
\* Logger::debug
LogDebug == logger # NoValue /\ Log("debug", Debug)

LoggerNext ==
    \/ SetLevel
    \/ SetColor
    \/ LogError
    \/ LogInfo
    \/ LogDebug

\* let logger = Logger::new()
LoggerInit ==
    /\ ParserIdle
    /\ cmp = NoValue
    /\ logger = new
    /\ out = <<>>
    /\ calls = <<>>

LoggerSpec == LoggerInit /\ [][LoggerNext]_vars

\* ------------------------------------------------------------ claims

Done == pc = "done"
\* parse_number, parse_string, ... has just returned to its caller
Returned(fn) == pc = "return" /\ call.fn = fn

\* the input has a character that skip_whitespace does not skip
HasSignificant(inp) == \E i \in 0..(Len(inp) - 1) : ~skip(char(inp, i))
\* the offset of the first such character
FirstSignificant(inp) ==
    CHOOSE i \in 0..(Len(inp) - 1) :
        /\ ~skip(char(inp, i))
        /\ \A j \in 0..(i - 1) : skip(char(inp, j))

\* C1: round trip: for every Value v built from null, booleans, integer
\* Numbers, strings, arrays and objects, parsing the text v renders to
\* returns Ok(v).
C1_RoundTrip ==
    (Done /\ input \in RenderedTexts) =>
        \A p \in Rendered : p.text = input => ret = Ok(p.val)

StartChars == {"n", "t", "f", "-", "\"", "[", "{"} \cup DigitSet

\* C2: when the first character after the skipped whitespace and commas, at
\* offset p, starts no value, parse returns Err(UnexpectedChar(p)) and does
\* not abort.
C2_UnexpectedLeadingChar ==
    (Done /\ HasSignificant(input)
          /\ char(input, FirstSignificant(input)) \notin StartChars) =>
        ret = Err(UnexpectedChar(FirstSignificant(input)))

RECURSIVE RunEnd(_, _)
\* the offset after the maximal run of characters of {0-9, '-', '.'} from p
RunEnd(inp, p) ==
    IF p < Len(inp) /\ is_digit(char(inp, p)) THEN RunEnd(inp, p + 1) ELSE p

\* what parse_number returns for the literal s
NumberResult(s) ==
    IF NumberFromStr(s).tag = "Err" THEN NumberFromStr(s)
    ELSE Ok(NumberValue(NumberFromStr(s).val))

\* C3: parse_number captures exactly the maximal run of {0-9, '-', '.'} from
\* the cursor, hands that run to the Number parser and leaves the cursor on
\* the first character after the run.
C3_MaximalRun ==
    Returned("parse_number") =>
        /\ pos = RunEnd(input, call.at)
        /\ ret = NumberResult(Slice(input, call.at, RunEnd(input, call.at)))

\* the literal parse_number captured: &self.input[start..self.pos]
Captured == Slice(input, call.at, pos)
OverRun(s) == \A i \in 1..Len(s) : is_digit(s[i])
IsNumber(r, variant) == r.tag = "Ok" /\ r.val.tag = "Number" /\ r.val.n.tag = variant
IsInvalid(r, sub) ==
    r.tag = "Err" /\ r.err.kind = "InvalidNumber" /\ r.err.num.sub = sub

\* the order of the classification, for a captured literal over {0-9, '-', '.'}
Classified ==
    (Returned("parse_number") /\ OverRun(Captured)) =>
        IF Contains(Captured, ".")
        THEN IsNumber(ret, "Float") \/ IsInvalid(ret, "ParseFloatError")
        ELSE IF Captured[1] = "-"
        THEN IsNumber(ret, "Int") \/ IsInvalid(ret, "ParseIntError")
        ELSE IsNumber(ret, "UInt") \/ IsInvalid(ret, "ParseIntError")

Letters == {"a", "d", "e", "x"}
\* two decimal points, or a trailing letter, make the literal invalid
Malformed ==
    (Returned("parse_number")
        /\ \/ Cardinality({i \in 1..Len(Captured) : Captured[i] = "."}) = 2
           \/ Captured[Len(Captured)] \in Letters) =>
        ret.tag = "Err" /\ ret.err.kind = "InvalidNumber"

\* C4 as stated: the order of the classification; a whole input of digits
\* only yields UInt, '-' followed by digits yields Int; two decimal points
\* or a trailing letter yield InvalidNumber.
C4_Classification_Original ==
    /\ Classified
    /\ Malformed
    /\ (Done /\ input # <<>> /\ AllDigits(input)) => IsNumber(ret, "UInt")
    /\ (Done /\ Len(input) > 1 /\ input[1] = "-" /\ AllDigits(Tail(input))) =>
            IsNumber(ret, "Int")

\* C4 (amended): the order of the classification; a whole input of digits
\* only whose value is at most u64::MAX yields UInt, '-' followed by digits
\* whose value is at least i64::MIN yields Int (beyond these the result is
\* InvalidNumber wrapping an integer-parse error); two decimal points or a
\* trailing letter yield InvalidNumber.
C4_Classification ==
    /\ Classified
    /\ Malformed
    /\ (Done /\ input # <<>> /\ AllDigits(input)) =>
            IF Exceeds(StripZeros(input), U64Max)
            THEN IsInvalid(ret, "ParseIntError")
            ELSE IsNumber(ret, "UInt")
    /\ (Done /\ Len(input) > 1 /\ input[1] = "-" /\ AllDigits(Tail(input))) =>
            IF Exceeds(StripZeros(Tail(input)), I64MinMag)
            THEN IsInvalid(ret, "ParseIntError")
            ELSE IsNumber(ret, "Int")

\* a literal with a leading '-' and a decimal point came back a Float
C4_Witness ==
    /\ Returned("parse_number")
    /\ Captured = <<"-", "1", ".", "0">>
    /\ IsNumber(ret, "Float")

\* ----- the reference string reader of C5 and C6

RECURSIVE ClosingQuote(_, _)
\* the offset of the first quote at or after i that no backslash escapes, a
\* backslash escaping exactly the character after it; -1 when there is none
ClosingQuote(inp, i) ==
    IF i >= Len(inp) THEN -1
    ELSE IF char(inp, i) = "\"" THEN i
    ELSE IF char(inp, i) = "\\" THEN ClosingQuote(inp, i + 2)
    ELSE ClosingQuote(inp, i + 1)

EscapeTable ==
    [c \in {"\"", "\\", "/", "b", "f", "n", "r", "t"} |->
        CASE c = "b" -> BS
          [] c = "f" -> "\f"
          [] c = "n" -> "\n"
          [] c = "r" -> "\r"
          [] c = "t" -> "\t"
          [] OTHER -> c]

RECURSIVE Decode(_)
\* the content s of a literal with each backslash pair decoded
Decode(s) ==
    IF s = <<>> THEN Ok(String(<<>>))
    ELSE IF s[1] = "\\"
    THEN IF s[2] \notin DOMAIN EscapeTable THEN Err(InvalidEscape(s[2]))
         ELSE LET rest == Decode(SubSeq(s, 3, Len(s)))
              IN IF rest.tag = "Err" THEN rest
                 ELSE Ok(String(<<EscapeTable[s[2]]>> \o rest.val.s))
    ELSE LET rest == Decode(Tail(s))
         IN IF rest.tag = "Err" THEN rest
            ELSE Ok(String(<<s[1]>> \o rest.val.s))

\* the input's first significant character is a quote, at offset q
StartsString(inp, q) ==
    HasSignificant(inp) /\ q = FirstSignificant(inp) /\ char(inp, q) = "\""

\* C5: an input whose first significant character is '"' and that has no
\* later unescaped closing quote fails with UnexpectedEnd(n), n the length of
\* the input.
C5_UnterminatedString ==
    \A q \in 0..(Len(input) - 1) :
        (Done /\ StartsString(input, q) /\ ClosingQuote(input, q + 1) = -1) =>
            ret = Err(UnexpectedEnd(Len(input)))

\* C6: parse_string agrees with the reference reader on every string
\* literal: the literal ends at the first unescaped quote and its value is
\* the decoded content, or InvalidEscape(c).
C6_StringReader ==
    \A q \in 0..(Len(input) - 1) :
        (Done /\ StartsString(input, q) /\ ClosingQuote(input, q + 1) # -1) =>
            ret = Decode(Slice(input, q + 1, ClosingQuote(input, q + 1)))

\* the literal parse_null / parse_bool is matching from the offset at
LiteralAt(inp, at) ==
    IF char(inp, at) = "n" THEN null
    ELSE IF char(inp, at) = "t" THEN true
    ELSE false
\* i is the offset of the first input character that differs from the literal
MismatchAt(inp, at, i) ==
    LET lit == LiteralAt(inp, at)
    IN /\ i >= at /\ i < at + Len(lit) /\ i < Len(inp)
       /\ char(inp, i) # lit[i - at + 1]
       /\ \A j \in at..(i - 1) : char(inp, j) = lit[j - at + 1]

\* C7: when the input character at offset i differs from the expected
\* character of null, true or false, parse fails with UnexpectedChar(i).
C7_MismatchOffset ==
    \A i \in 0..(Len(input) - 1) :
        ((Returned("parse_null") \/ Returned("parse_bool"))
            /\ MismatchAt(input, call.at, i)) =>
            ret = Err(UnexpectedChar(i))

\* C8: for every proper prefix p of null, true or false (the empty one
\* included), parse(p) fails with UnexpectedEnd(k), k the length of p.
C8_TruncatedLiteral ==
    \A l \in Literals : \A k \in 0..(Len(l) - 1) :
        (Done /\ input = SubSeq(l, 1, k)) => ret = Err(UnexpectedEnd(k))

\* "fals" has failed with UnexpectedEnd(4)
C8_Witness ==
    /\ Done
    /\ input = <<"f", "a", "l", "s">>
    /\ ret = Err(UnexpectedEnd(4))

\* C9: when the pre-scan of parse_array or parse_object, at any nesting
\* level, reaches the end of the input with its depth not back at zero, that
\* call and the whole parse fail with UnexpectedEnd(n), n the length of the
\* entire input.
C9_UnterminatedContainer ==
    (depth # 0 /\ pc \in {"return", "done"}) =>
        ret = Err(UnexpectedEnd(Len(input)))

\* the pre-scan of a nested container has just failed, its caller still active
C9_Witness ==
    /\ pc = "return"
    /\ depth # 0
    /\ stack # <<>>
    /\ call.at > 0
    /\ ret = Err(UnexpectedEnd(Len(input)))

\* C10: '[' w1 e1 .. wn en ']', the e null, true, false, string literals
\* without backslashes or brackets or arrays of such, the w runs of
\* whitespace and commas, parses to the Array of the n element values in
\* source order, at every nesting depth.
C10_ArrayElements ==
    /\ ArrayTextsDistinct
    /\ (Done /\ input \in ArrayTexts) =>
            /\ ret.tag = "Ok"
            /\ [text |-> input, val |-> ret.val] \in ArrayPairs

\* an array text with a run after the opening bracket and a nested array
\* of one element has parsed
C10_Witness ==
    /\ Done
    /\ input \in ArrayTexts
    /\ skip(input[2])
    /\ ret.tag = "Ok"
    /\ Len(ret.val.a) = 1
    /\ ret.val.a[1].tag = "Array"
    /\ Len(ret.val.a[1].a) = 1

\* the keys of the members, and the value of the last member with key k
KeysOf(members) == {members[i].key : i \in 1..Len(members)}
LastValue(members, k) ==
    members[CHOOSE i \in 1..Len(members) :
                /\ members[i].key = k
                /\ \A j \in (i + 1)..Len(members) : members[j].key # k].val

\* C11: an object text that parses successfully and repeats a key yields an
\* Object with one entry for that key, holding the value of its last
\* occurrence: the entries are the distinct keys of the text, each with the
\* value of the last member of that key.
C11_LastWriteWins ==
    (Done /\ input \in ObjectTexts /\ ret.tag = "Ok") =>
        LET members == MembersOf(input)
        IN /\ ret.val.tag = "Object"
           /\ DOMAIN ret.val.o = KeysOf(members)
           /\ \A k \in KeysOf(members) : ret.val.o[k] = LastValue(members, k)

\* {"a":null, "a":true} has parsed to the Object of the one entry a: true
C11_Witness ==
    /\ Done
    /\ input \in ObjectTexts
    /\ Len(MembersOf(input)) = 2
    /\ MembersOf(input)[1] = [key |-> <<"a">>, val |-> Null]
    /\ MembersOf(input)[2] = [key |-> <<"a">>, val |-> Bool(TRUE)]
    /\ ret = Ok(Object([k \in {<<"a">>} |-> Bool(TRUE)]))

RECURSIVE OuterSpace(_, _, _)
\* some whitespace character of the JSON text t, from index i on, lies
\* outside the string literals; q: index i is inside a literal
OuterSpace(t, i, q) ==
    IF i > Len(t) THEN FALSE
    ELSE IF q THEN (IF t[i] = "\\" THEN OuterSpace(t, i + 2, TRUE)
                    ELSE OuterSpace(t, i + 1, t[i] # "\""))
    ELSE t[i] \in WhiteSpace \/ OuterSpace(t, i + 1, t[i] = "\"")

\* the text of a member value
TextOf(val) == (CHOOSE v \in MemberValues : v.val = val).text
\* the object text of the members: one "key":value per distinct key with the
\* value of its last member, a before b, a ',' between them
CanonObject(members) ==
    LET Entry(k) ==
            IF k \in KeysOf(members)
            THEN Quoted(k) \o <<":">> \o TextOf(LastValue(members, k))
            ELSE <<>>
    IN <<"{">> \o Entry(<<"a">>)
       \o (IF KeysOf(members) = MemberKeys THEN <<",">> ELSE <<>>)
       \o Entry(<<"b">>) \o <<"}">>

\* the length of the value token (null, true, false or a string literal
\* without escapes) that starts at index i of t
TokenLen(t, i) ==
    IF t[i] = "\""
    THEN (CHOOSE j \in (i + 1)..Len(t) :
              t[j] = "\"" /\ \A k \in (i + 1)..(j - 1) : t[k] # "\"") - i + 1
    ELSE IF t[i] = "f" THEN 5 ELSE 4

RECURSIVE Compact(_, _, _)
\* the array text t from index i on, without its runs of whitespace and
\* commas and with one ',' between neighbouring values; first: no value
\* precedes index i in its array
Compact(t, i, first) ==
    IF i > Len(t) THEN <<>>
    ELSE IF t[i] \in WhiteSpace \cup {","} THEN Compact(t, i + 1, first)
    ELSE IF t[i] = "]" THEN <<"]">> \o Compact(t, i + 1, FALSE)
    ELSE (IF first THEN <<>> ELSE <<",">>)
         \o (IF t[i] = "[" THEN <<"[">> \o Compact(t, i + 1, TRUE)
             ELSE SubSeq(t, i, i + TokenLen(t, i) - 1)
                  \o Compact(t, i + TokenLen(t, i), FALSE))

Compared == cmp # NoValue /\ cmp.ran = {"eq", "hl", "hr"}

\* C13: Number hashing is consistent with Number equality: a == b implies
\* hash(a) == hash(b), for every pair of Numbers, the Float pair +0.0 and
\* -0.0 and the NaNs included; Numbers of different variants are never equal.
C13_HashConsistent ==
    Compared =>
        /\ cmp.eq => cmp.hl = cmp.hr
        /\ cmp.lhs.tag # cmp.rhs.tag => ~cmp.eq

\* the Logger methods called so far, none of them level()
NoLevelCall == \A i \in 1..Len(calls) : calls[i] # "level"
\* the levels of the lines that a Logger at level Info prints for the calls
InfoLines ==
    LET shown == SelectSeq(calls, LAMBDA c : c \in {"error", "info"})
    IN [i \in 1..Len(shown) |-> IF shown[i] = "error" THEN "ERROR" ELSE "INFO"]

\* C14: Logger::new() makes a Logger with level Info and color enabled: as
\* long as level() has not been called, error and info messages are printed
\* and debug messages are not.
C14_NewLoggerLevel ==
    (logger # NoValue /\ NoLevelCall) =>
        [i \in 1..Len(out) |-> out[i].level] = InfoLines

\* C15: once parse_array or parse_object has consumed its opening delimiter
\* at offset p, the cursor is never again at p or before it: neither the
\* reset after the pre-scan nor the unread of skip_whitespace crosses the
\* delimiter of an entered container.
C15_NoBacktrack == \A p \in opened : pos > p

\* an inner container has returned to the loop of the outer one, which has
\* skipped on and unread a character since
C15_Witness ==
    /\ Cardinality(opened) = 2
    /\ Len(stack) = 1
    /\ Len(Top.tokens) = 1
    /\ pc = "parse"
    /\ \A p \in opened : pos > p

Containers == {"parse_array", "parse_object"}
Opening(fn) == IF fn = "parse_array" THEN "[" ELSE "{"
Closing(fn) == IF fn = "parse_array" THEN "]" ELSE "}"
\* 1 + the opening delimiters - the closing delimiters of container fn among
\* the raw characters of t at offsets a .. e-1
Balance(t, a, e, fn) ==
    1 + Cardinality({i \in a..(e - 1) : char(t, i) = Opening(fn)})
      - Cardinality({i \in a..(e - 1) : char(t, i) = Closing(fn)})
\* the balance from offset a is zero somewhere
HasRawEnd(t, a, fn) == \E e \in (a + 1)..Len(t) : Balance(t, a, e, fn) = 0
\* e is one past the first position where the balance from offset a is zero
IsRawEnd(t, a, e, fn) ==
    /\ e \in (a + 1)..Len(t)
    /\ Balance(t, a, e, fn) = 0
    /\ \A d \in (a + 1)..(e - 1) : Balance(t, a, d, fn) # 0
RawEnd(t, a, fn) == CHOOSE e \in (a + 1)..Len(t) : IsRawEnd(t, a, e, fn)

\* the elements of the bracket text whose first character lies before offset e
Collected(p, e) ==
    LET n == Cardinality({i \in 1..Len(p.elems) : p.starts[i] < e})
    IN SubSeq(p.elems, 1, n)

\* C16: the pre-scan counts the delimiters of its own kind over all raw
\* characters, those inside string literals too: the end it finds is one
\* past the first position where 1 + openings - closings is zero, and it
\* fails with UnexpectedEnd when there is none.  So an array whose string
\* element holds an unmatched '[' fails with UnexpectedEnd, and one whose
\* string element holds ']' collects no element after that string.
C16_RawPreScan ==
    /\ (pc \in {"array_loop", "object_loop"} /\ pos = Top.start) =>
          IsRawEnd(input, Top.start, Top.end, Top.fn)
    /\ (call.fn \in Containers /\ ret # Err(UnexpectedEnd(len))) =>
          HasRawEnd(input, call.at + 1, call.fn)
    /\ (Done /\ input \in BracketTexts) =>
          LET p == CHOOSE q \in BracketPairs : q.text = input
          IN IF HasRawEnd(input, 1, "parse_array")
             THEN ret = Ok(Array(Collected(p, RawEnd(input, 1, "parse_array") - 1)))
             ELSE ret = Err(UnexpectedEnd(len))

\* ["]",null] has parsed to the Array of the one string
C16_Witness ==
    /\ Done
    /\ input = <<"[">> \o Quoted(<<"]">>) \o <<",">> \o null \o <<"]">>
    /\ ret = Ok(Array(<<String(<<"]">>)>>))

\* C17: parse_object accepts a member only if the character at its key
\* position, after the whitespace and commas, is '"': an object text whose
\* key position holds another character never parses successfully.
C17_KeyIsString ==
    /\ \A t \in BadKeyTexts : char(t, skip_whitespace(t, 1)) # "\""
    /\ (Done /\ input \in BadKeyTexts) => ret.tag # "Ok"

\* the step about to run reads a character at an index >= len, takes a
\* slice beyond the input, or decrements the cursor below zero
IndexFault ==
    \/ pc = "skip_whitespace" /\ skip_whitespace(input, pos) < 0
    \/ pc = "dispatch" /\ ~InBounds(input, pos)
    \/ pc = "parse_null" /\ parse_null(input, pos).res = Panic
    \/ pc = "parse_bool" /\ parse_bool(input, pos).res = Panic
    \/ pc = "parse_number" /\ parse_number(input, pos).res = Panic
    \/ pc \in {"parse_string", "object_key"}
          /\ parse_string(input, pos).res = Panic
    \/ pc = "object_colon" /\ require_chars(input, pos, <<":">>).res = Panic

\* C18: for every non-empty input no step reads a character at an index
\* >= len, takes a slice that is not start <= end <= len, or underflows the
\* decrement of skip_whitespace: no out-of-bounds or overflow abort happens.
C18_IndexSafety ==
    len > 0 =>
        /\ ~IndexFault
        /\ pos >= 0
        /\ Returned("parse_number") => (call.at <= pos /\ pos <= len)
        /\ (Returned("parse_string") /\ ret.tag = "Ok") =>
              (call.at + 1 <= pos - 1 /\ pos - 1 <= len)

\* skip_whitespace has run to the end of an input of whitespace and commas
\* and unread one character: the dispatch reads the last character
C18_Witness ==
    /\ pc = "dispatch"
    /\ len > 1
    /\ pos = len - 1
    /\ \A i \in 0..(len - 1) : skip(char(input, i))

\* an iteration of the element loop or the member loop has just ended
\* without failing: its value is pushed or inserted
IterationDone ==
    /\ pc \in {"array_loop", "object_loop"}
    /\ Top.tokens # <<>>

\* C19: for every finite input parse eventually returns or aborts; every
\* iteration of the array element loop and of the object member loop that
\* does not fail leaves the cursor strictly after the cursor at its start;
\* and the recursion depth never exceeds the length of the input.
C19_Termination ==
    /\ <>Done
    /\ [](IterationDone => pos > Top.mark)
    /\ [](Len(stack) <= len)

\* the first iteration of the loop of a nested array has ended, and the
\* parse went on to its end
C19_Witness ==
    /\ Done
    /\ opened = {0, 1}
    /\ ret.tag = "Ok"
    /\ ret.val.tag = "Array"
    /\ Len(ret.val.a) = 1
    /\ ret.val.a[1].tag = "Array"
    /\ Len(ret.val.a[1].a) = 1
    /\ pos = len

\* C20: whenever Value::from_str returns Ok the cursor equals the length of
\* the input: the one value consumed the whole input, and an input with
\* characters left after a complete value never yields Ok.
C20_WholeInputConsumed == (Done /\ ret.tag = "Ok") => pos = len

====
